---- MODULE Spec2Model ----
(***************************************************************************)
(* A model of collect_data.py: the retrying fetch (fetch_json), the        *)
(* backwards pagination with merge, sort and dedup (fetch_position_paged), *)
(* the candle fetch and price trimming (collect_period), the main loop     *)
(* over periods and coins, and the pure function downsample.               *)
(*                                                                         *)
(* Time is scaled: timestamps are 1..MaxTs, the clock reads Now, and the   *)
(* look-back of a period is a few ticks instead of days.  Sleeps are       *)
(* measured in tenths of a second.  The per-page limit of the stats query  *)
(* (limit=10000) is scaled to PageLimit entries.                           *)
(*                                                                         *)
(* A JSON value is [kind, items]: kind "list" carries its entries, the     *)
(* other kinds carry none.  An entry of a list is [list, f]: a JSON list   *)
(* with fields f (list = TRUE) or a scalar (list = FALSE).                 *)
(*                                                                         *)
(* The documents written by save_period and main are not part of the       *)
(* state: of result only the keys written so far are kept, together with   *)
(* the three series of the coin collected last.  Locals that the code      *)
(* never reads again (all_data and data after a return, the series of the  *)
(* previous coin) are reset when they die.                                 *)
(***************************************************************************)
EXTENDS Integers, Sequences, FiniteSets, TLC

VARIABLES
    pc,        \* control location of the run
    period,    \* index into PERIODS of the period being collected
    coin,      \* index into COINS of the coin being collected
    side,      \* which fetch is in progress: "long", "short" or "candle"
    all_data,  \* fetch_position_paged: pages accumulated so far
    cursor,    \* fetch_position_paged: end bound of the next request
    page,      \* fetch_position_paged: loop index
    nreq,      \* fetch_json calls made by the current fetch_position_paged
    req,       \* query parameters of the request in flight (or of the last one)
    attempt,   \* fetch_json: loop index, the failed attempts of the call
    ok,        \* fetch_json: the current call returned a parsed response
    data,      \* value returned by fetch_json, until the caller has used it
    slept,     \* duration of the time.sleep since the last urlopen (0: none)
    longs,     \* collect_period: longs of the current coin
    shorts,    \* collect_period: shorts of the current coin
    price_data, \* collect_period: price_data of the current coin
    result,    \* collect_period: keys of result written in this period
    exc,       \* exception that ended the run ("none" while running)
    ds_pc,     \* downsample: "idle", "call", "returned" or "raised"
    ds_data,   \* downsample: argument data
    ds_max,    \* downsample: argument max_points
    ds_out     \* downsample: returned list

vars == <<pc, period, coin, side, all_data, cursor, page, nreq, req, attempt,
          ok, data, slept, longs, shorts, price_data, result, exc,
          ds_pc, ds_data, ds_max, ds_out>>

pipeVars == <<pc, period, coin, side, all_data, cursor, page, nreq, req,
              attempt, ok, data, slept, longs, shorts, price_data, result, exc>>

dsVars == <<ds_pc, ds_data, ds_max, ds_out>>

---------------------------------------------------------------------------
\* Bounds of the model.

\* Timestamps the source may return are 1..MaxTs.
MaxTs == 3

\* Longest candle response.
MaxCandles == 2

\* Longest argument of downsample.
MaxLen == 5

\* max_points ranges over 1..MaxPoints.
MaxPoints == 5

---------------------------------------------------------------------------
\* Program constants.

\* fetch_json(url, retries=3)
Retries == 3

\* limit=10000 and len(data) < 10000: the entries of a full page, scaled.
PageLimit == 2

\* time.sleep(5) between attempts, in tenths of a second.
BACKOFF == 50

\* RATE_LIMIT_DELAY = 2.5, in tenths of a second.
RATE_LIMIT_DELAY == 25

\* COINS, in iteration order.
COINS == <<"btc", "eth", "sol">>

\* The clock: time.time() and datetime.now(), in ticks.  The run is short
\* against a tick, so every reading gives the same value.
Now == MaxTs

\* PERIODS, in iteration order; days_back is scaled to ticks.
PERIODS ==
    << [key |-> "90d", days_back |-> 1, candle_tf |-> "1h", max_pages |-> 1],
       [key |-> "1y",  days_back |-> 2, candle_tf |-> "4h", max_pages |-> 1],
       [key |-> "3y",  days_back |-> 3, candle_tf |-> "1D", max_pages |-> 3] >>

\* collect_period: start_ms of the period being collected.
StartMs == Now - PERIODS[period].days_back

\* collect_period: max_pages of the period being collected.
MaxPages == PERIODS[period].max_pages

---------------------------------------------------------------------------
\* JSON values and what the source may answer.

Item(l, f) == [list |-> l, f |-> f]

Scalar == Item(FALSE, <<>>)

JList(s) == [kind |-> "list", items |-> s]

JOther(k) == [kind |-> k, items |-> <<>>]

NonListKinds == {"object", "string", "number", "boolean", "null"}

NoData == JOther("none")

\* No request has been made yet.
NoRequest == [path |-> "none", start |-> 0, end |-> <<>>]

Timestamps == 1..MaxTs

\* Position sizes and close prices are abstracted to one value; the open
\* field of a candle is 0.
Values == {1}

\* Entries of a stats response: [ts, value], or malformed ([], a scalar).
PositionEntries ==
    {Item(TRUE, <<t, v>>) : t \in Timestamps, v \in Values}
        \cup {Item(TRUE, <<>>), Scalar}

\* Entries of a candle response: [ts, open, close, ...], or malformed.
CandleEntries ==
    {Item(TRUE, <<t, 0, c>>) : t \in Timestamps, c \in Values}
        \cup {Item(TRUE, <<>>), Scalar}

SeqsUpTo(S, n) == UNION {[1..k -> S] : k \in 0..n}

PositionResponses ==
    {JList(s) : s \in SeqsUpTo(PositionEntries, PageLimit)}
        \cup {JOther(k) : k \in NonListKinds}

CandleResponses ==
    {JList(s) : s \in SeqsUpTo(CandleEntries, MaxCandles)}
        \cup {JOther(k) : k \in NonListKinds}

Responses == IF side = "candle" THEN CandleResponses ELSE PositionResponses

---------------------------------------------------------------------------
\* Python operations on the modelled values.

\* isinstance(x, list)
IsList(d) == d.kind = "list"

\* x[0] is defined: x is a non-empty list.
Indexable(x) == x.list /\ Len(x.f) >= 1

\* The exception x[0] raises on an entry that is not indexable.
IndexError(x) == IF x.list THEN "IndexError" ELSE "TypeError"

\* x[0]
Ts(x) == x.f[1]

RECURSIVE FirstBad(_)
FirstBad(s) ==
    IF Indexable(Head(s)) THEN FirstBad(Tail(s)) ELSE Head(s)

AllIndexable(s) == \A i \in 1..Len(s) : Indexable(s[i])

RECURSIVE Reverse(_)
Reverse(s) == IF s = <<>> THEN <<>> ELSE Append(Reverse(Tail(s)), Head(s))

\* list.sort(key=lambda x: x[0]): a stable sort by timestamp.
RECURSIVE InsertByTs(_, _)
InsertByTs(s, x) ==
    IF s = <<>> THEN <<x>>
    ELSE IF Ts(s[Len(s)]) <= Ts(x) THEN Append(s, x)
    ELSE Append(InsertByTs(SubSeq(s, 1, Len(s) - 1), x), s[Len(s)])

\* Faulty variant: the list is left in arrival order.
SortByTsNone(s) == s

RECURSIVE SortByTs(_)
SortByTs(s) ==
    IF s = <<>> THEN <<>>
    ELSE InsertByTs(SortByTs(SubSeq(s, 1, Len(s) - 1)), s[Len(s)])

\* The loop over all_data with the set seen.
RECURSIVE DedupFrom(_, _, _)
DedupFrom(s, seen, acc) ==
    IF s = <<>> THEN acc
    ELSE IF Ts(Head(s)) \in seen
         THEN DedupFrom(Tail(s), seen, acc)
         ELSE DedupFrom(Tail(s), seen \cup {Ts(Head(s))}, Append(acc, Head(s)))

Dedup(s) == DedupFrom(s, {}, <<>>)

---------------------------------------------------------------------------
\* fetch_json

\* Faulty variant: the backoff also follows the last attempt.
BackoffAlways(a) == BACKOFF

\* if attempt < retries - 1: time.sleep(5)
BackoffAfter(a) == IF a < Retries - 1 THEN BACKOFF ELSE 0

\* for attempt in range(retries): does another attempt follow failure a?
RetryAfter(a) == a + 1 < Retries

\* The call of fetch_json(url): the first urlopen is about to happen.
CallFetchJson(r) ==
    /\ req' = r
    /\ attempt' = 0
    /\ ok' = FALSE
    /\ data' = NoData
    /\ pc' = "attempt"

\* urlopen or json.loads raises: back off and try again, or return [].
AttemptFails ==
    /\ pc = "attempt"
    /\ slept' = BackoffAfter(attempt)
    /\ IF RetryAfter(attempt)
       THEN /\ pc' = "attempt"
            /\ attempt' = attempt + 1
            /\ UNCHANGED data
       ELSE /\ pc' = "fetched"
            /\ attempt' = 0
            /\ data' = JList(<<>>)
    /\ UNCHANGED <<period, coin, side, all_data, cursor, page, nreq, req, ok,
                   longs, shorts, price_data, result, exc>>
    /\ UNCHANGED dsVars

\* urlopen succeeds and the body parses: return the parsed JSON.
AttemptSucceeds ==
    /\ pc = "attempt"
    /\ \E d \in Responses : data' = d
    /\ ok' = TRUE
    /\ slept' = 0
    /\ attempt' = 0
    /\ pc' = "fetched"
    /\ UNCHANGED <<period, coin, side, all_data, cursor, page, nreq, req,
                   longs, shorts, price_data, result, exc>>
    /\ UNCHANGED dsVars

---------------------------------------------------------------------------
\* The delay after fetch_json, in fetch_position_paged and fetch_candle_data.

\* Faulty variant: the delay is skipped when the fetch brought no data.
RateLimitSleepIfData(d) ==
    IF IsList(d) /\ d.items # <<>> THEN RATE_LIMIT_DELAY ELSE slept

\* time.sleep(RATE_LIMIT_DELAY)
RateLimitSleep(d) == RATE_LIMIT_DELAY

Throttle ==
    /\ pc = "fetched"
    /\ slept' = RateLimitSleep(data)
    /\ pc' = "process"
    /\ UNCHANGED <<period, coin, side, all_data, cursor, page, nreq, req,
                   attempt, ok, data, longs, shorts, price_data, result, exc>>
    /\ UNCHANGED dsVars

---------------------------------------------------------------------------
\* fetch_position_paged

\* The stats URL: start and end of the query.
StatsUrl(c) == [path |-> "stats", start |-> StartMs, end |-> <<c>>]

\* The candle URL: it has a start and no end.
CandleUrl == [path |-> "candles", start |-> StartMs, end |-> <<>>]

\* Faulty variant: the cursor stays on the oldest timestamp.
NextCursorSame(items) == Ts(items[Len(items)])

\* cursor = oldest_ts - 1, with oldest_ts = data[-1][0]
NextCursor(items) == Ts(items[Len(items)]) - 1

\* Faulty variant: the length of the page is not looked at.
BreakOnCursorOnly(cur, items) == cur <= StartMs

\* if cursor <= start_ms or len(data) < 10000: break
BreakAfterPage(cur, items) == cur <= StartMs \/ Len(items) < PageLimit

\* for page in range(max_pages): is there an iteration after this one?
LoopAgain(p) == p + 1 < MaxPages

\* The entry of fetch_position_paged(symbol, s, start_ms, max_pages), up to
\* its first call of fetch_json.
CallFetchPositionPaged(s) ==
    /\ side' = s
    /\ all_data' = <<>>
    /\ cursor' = Now
    /\ page' = 0
    /\ nreq' = 1
    /\ CallFetchJson(StatsUrl(Now))

\* fetch_candle_data(symbol, timeframe, start_ms), up to its call of fetch_json.
CallFetchCandleData ==
    /\ side' = "candle"
    /\ all_data' = <<>>
    /\ cursor' = Now
    /\ page' = 0
    /\ nreq' = 0
    /\ CallFetchJson(CandleUrl)

\* An uncaught exception ends the run.
Raise(e) ==
    /\ pc' = "raised"
    /\ exc' = e
    /\ data' = NoData
    /\ all_data' = <<>>
    /\ UNCHANGED <<period, coin, side, cursor, page, nreq, req, attempt, ok,
                   slept, longs, shorts, price_data, result>>

\* The sort, the dedup and the return of fetch_position_paged, and what
\* collect_period does with the value up to its next call of fetch_json.
Finish(all) ==
    IF ~AllIndexable(all)
    THEN Raise(IndexError(FirstBad(all)))
    ELSE LET deduped == Dedup(SortByTs(all)) IN
         /\ UNCHANGED <<period, coin, slept, price_data, result, exc>>
         /\ IF side = "long"
            THEN /\ longs' = deduped
                 /\ UNCHANGED shorts
                 /\ CallFetchPositionPaged("short")
            ELSE /\ shorts' = deduped
                 /\ UNCHANGED longs
                 /\ CallFetchCandleData

\* The body of the page loop after the delay, through to the next call of
\* fetch_json.
ProcessPage ==
    /\ pc = "process"
    /\ side \in {"long", "short"}
    /\ IF ~IsList(data) \/ data.items = <<>>
       THEN Finish(all_data)
       ELSE LET items == data.items
                last == items[Len(items)]
            IN  IF ~Indexable(last)
                THEN Raise(IndexError(last))
                ELSE IF BreakAfterPage(NextCursor(items), items) \/ ~LoopAgain(page)
                     THEN Finish(all_data \o items)
                     ELSE /\ all_data' = all_data \o items
                          /\ cursor' = NextCursor(items)
                          /\ page' = page + 1
                          /\ nreq' = nreq + 1
                          /\ CallFetchJson(StatsUrl(NextCursor(items)))
                          /\ UNCHANGED <<period, coin, side, slept, longs,
                                         shorts, price_data, result, exc>>
    /\ UNCHANGED dsVars

---------------------------------------------------------------------------
\* collect_period

\* for c in candles: the values the loop visits.  Iterating an object gives
\* its keys and iterating a string its characters, which are not lists.
Iterate(d) ==
    IF IsList(d) THEN Reverse(d.items)
    ELSE IF d.kind \in {"object", "string"} THEN <<Scalar>>
    ELSE <<>>

\* for c in candles raises TypeError on a number, a boolean or null.
Iterable(d) == d.kind \in {"list", "object", "string"}

\* [[c[0], c[2]] for c in candles if isinstance(c, list) and len(c) >= 3]
RECURSIVE CloseProjection(_)
CloseProjection(cs) ==
    IF cs = <<>> THEN <<>>
    ELSE LET c == Head(cs) IN
         IF c.list /\ Len(c.f) >= 3
         THEN <<Item(TRUE, <<c.f[1], c.f[3]>>)>> \o CloseProjection(Tail(cs))
         ELSE CloseProjection(Tail(cs))

\* stats_start, as a sequence: <<>> is None.
StatsStart(l, s) ==
    LET fromLongs == IF l # <<>> THEN <<Ts(l[1])>> ELSE <<>>
    IN  IF s # <<>> /\ (fromLongs = <<>> \/ Ts(s[1]) < fromLongs[1])
        THEN <<Ts(s[1])>>
        ELSE fromLongs

AtOrAfter(t, p) == Ts(p) >= t

\* Faulty variant: the trimming without its fallback.
TrimPriceNoFallback(pd, st) ==
    IF st # <<>> /\ pd # <<>>
    THEN SelectSeq(pd, LAMBDA p : AtOrAfter(st[1], p))
    ELSE pd

\* The trimming of price_data, with its fallback.
TrimPrice(pd, st) ==
    IF st # <<>> /\ pd # <<>>
    THEN LET kept == SelectSeq(pd, LAMBDA p : AtOrAfter(st[1], p))
         IN  IF kept = <<>> THEN pd ELSE kept
    ELSE pd

\* The rest of the loop body of collect_period after fetch_candle_data
\* returns: the projection, the trimming and result[coin_key] = ...
ProcessCandles ==
    /\ pc = "process"
    /\ side = "candle"
    /\ IF ~Iterable(data)
       THEN Raise("TypeError")
       ELSE /\ price_data' = TrimPrice(CloseProjection(Iterate(data)),
                                  StatsStart(longs, shorts))
            /\ result' = result \cup {COINS[coin]}
            /\ data' = NoData
            /\ pc' = "stored"
            /\ UNCHANGED <<period, coin, side, all_data, cursor, page, nreq,
                           req, attempt, ok, slept, longs, shorts, exc>>
    /\ UNCHANGED dsVars

\* The start of collect_period(period_key), up to the first call of
\* fetch_json for the first coin.
CollectPeriod ==
    /\ pc = "start"
    /\ coin' = 1
    /\ result' = {}
    /\ longs' = <<>>
    /\ shorts' = <<>>
    /\ price_data' = <<>>
    /\ CallFetchPositionPaged("long")
    /\ UNCHANGED <<period, slept, exc>>
    /\ UNCHANGED dsVars

\* for coin_key, symbol in COINS.items(): the next coin.
NextCoin ==
    /\ pc = "stored"
    /\ coin < Len(COINS)
    /\ coin' = coin + 1
    /\ longs' = <<>>
    /\ shorts' = <<>>
    /\ price_data' = <<>>
    /\ CallFetchPositionPaged("long")
    /\ UNCHANGED <<period, slept, result, exc>>
    /\ UNCHANGED dsVars

\* collect_period returns, save_period writes the document, and main goes
\* on to the next period or ends.
NextPeriod ==
    /\ pc = "stored"
    /\ coin = Len(COINS)
    /\ IF period < Len(PERIODS)
       THEN /\ period' = period + 1
            /\ pc' = "start"
       ELSE /\ pc' = "done"
            /\ UNCHANGED period
    /\ longs' = <<>>
    /\ shorts' = <<>>
    /\ price_data' = <<>>
    /\ UNCHANGED <<coin, side, all_data, cursor, page, nreq, req, attempt, ok,
                   data, slept, result, exc>>
    /\ UNCHANGED dsVars

---------------------------------------------------------------------------
\* downsample

\* int(i * step) with step = (len(data) - 1) / (max_points - 1), for
\* max_points >= 2.  For len(data) <= 30 the double product truncates to the
\* exact quotient.
StrideIndex(i, n, m) == (i * (n - 1)) \div (m - 1)

\* range(max_points - 1), shifted to 1..max_points - 1: empty when
\* max_points <= 1.
StrideRange(m) == 1..(m - 1)

\* Faulty variant: the last element is not appended.
DownsampleNoLast(d, m) ==
    IF d = <<>> \/ Len(d) <= m
    THEN [raised |-> FALSE, out |-> d]
    ELSE IF m - 1 = 0
    THEN [raised |-> TRUE, out |-> <<>>]
    ELSE [raised |-> FALSE,
          out |-> [i \in StrideRange(m) |-> d[StrideIndex(i - 1, Len(d), m) + 1]]]

\* Faulty variant: the stride starts at i = 1.
DownsampleFromOne(d, m) ==
    IF d = <<>> \/ Len(d) <= m
    THEN [raised |-> FALSE, out |-> d]
    ELSE IF m - 1 = 0
    THEN [raised |-> TRUE, out |-> <<>>]
    ELSE [raised |-> FALSE,
          out |-> Append([i \in StrideRange(m) |->
                              d[StrideIndex(i, Len(d), m) + 1]],
                         d[Len(d)])]

\* downsample(data, max_points): the list returned, or raised when the
\* division by max_points - 1 raises ZeroDivisionError.
downsample(d, m) ==
    IF d = <<>> \/ Len(d) <= m
    THEN [raised |-> FALSE, out |-> d]
    ELSE IF m - 1 = 0
    THEN [raised |-> TRUE, out |-> <<>>]
    ELSE [raised |-> FALSE,
          out |-> Append([i \in StrideRange(m) |->
                              d[StrideIndex(i - 1, Len(d), m) + 1]],
                         d[Len(d)])]

\* Elements of the lists handed to downsample.
DsElements == {1, 2}

\* A call of downsample(ds_data, ds_max).
CallDownsample ==
    /\ ds_pc = "call"
    /\ LET r == downsample(ds_data, ds_max) IN
       /\ ds_pc' = IF r.raised THEN "raised" ELSE "returned"
       /\ ds_out' = r.out
    /\ UNCHANGED <<ds_data, ds_max>>
    /\ UNCHANGED pipeVars

---------------------------------------------------------------------------
\* The run of main.

PipeInit ==
    /\ pc = "start"
    /\ period = 1
    /\ coin = 1
    /\ side = "long"
    /\ all_data = <<>>
    /\ cursor = Now
    /\ page = 0
    /\ nreq = 0
    /\ req = NoRequest
    /\ attempt = 0
    /\ ok = FALSE
    /\ data = NoData
    /\ slept = 0
    /\ longs = <<>>
    /\ shorts = <<>>
    /\ price_data = <<>>
    /\ result = {}
    /\ exc = "none"

DsIdle ==
    /\ ds_pc = "idle"
    /\ ds_data = <<>>
    /\ ds_max = 0
    /\ ds_out = <<>>

Init == PipeInit /\ DsIdle

Next ==
    \/ CollectPeriod
    \/ AttemptFails
    \/ AttemptSucceeds
    \/ Throttle
    \/ ProcessPage
    \/ ProcessCandles
    \/ NextCoin
    \/ NextPeriod

Spec == Init /\ [][Next]_vars

\* downsample on every list of up to MaxLen elements and every max_points
\* in 1..MaxPoints.
InitDownsample ==
    /\ PipeInit
    /\ ds_pc = "call"
    /\ ds_data \in SeqsUpTo(DsElements, MaxLen)
    /\ ds_max \in 1..MaxPoints
    /\ ds_out = <<>>

NextDownsample == CallDownsample

SpecDownsample == InitDownsample /\ [][NextDownsample]_vars

---------------------------------------------------------------------------
\* Vocabulary of the properties.

InPaged == side \in {"long", "short"}

\* The step in which fetch_position_paged returns its series.
PagedReturns == pc = "process" /\ InPaged /\ pc' # "raised" /\ side' # side

\* The series returned by that step.
Returned == IF side = "long" THEN longs' ELSE shorts'

\* The step in which fetch_position_paged issues one more request.
PagedContinues == pc = "process" /\ InPaged /\ pc' = "attempt" /\ side' = side

\* The pages accumulated when the page in data has been added.
Accumulated == all_data \o (IF IsList(data) THEN data.items ELSE <<>>)

TsOf(s) == {Ts(s[i]) : i \in 1..Len(s)}

StrictlyAscending(s) == \A i \in 1..(Len(s) - 1) : Ts(s[i]) < Ts(s[i + 1])

Point(t, v) == Item(TRUE, <<t, v>>)

Candle(t, c) == Item(TRUE, <<t, 0, c>>)

WellFormedPosition(x) == x.list /\ Len(x.f) = 2

WellFormedCandle(x) == x.list /\ Len(x.f) >= 3

\* The step in which fetch_json is called.
FetchJsonCalled == pc # "attempt" /\ pc' = "attempt"

\* The price series the reconciliation rule asks for, from the candles in
\* data and the two series.
ExpectedPrice ==
    LET full == CloseProjection(Iterate(data))
        firsts == {Ts(s[1]) : s \in {x \in {longs, shorts} : x # <<>>}}
    IN  IF firsts = {} THEN full
        ELSE LET statsStart == CHOOSE t \in firsts : \A u \in firsts : t <= u
                 kept == SelectSeq(full, LAMBDA p : Ts(p) >= statsStart)
             IN  IF kept = <<>> THEN full ELSE kept

---------------------------------------------------------------------------
\* C1: whenever fetch_position_paged returns, whatever pages it was given,
\* the returned series is strictly ascending by timestamp (so no timestamp
\* occurs twice), every point of it is an entry of the accumulated pages, and
\* its timestamps are exactly the timestamps of the accumulated pages.
C1_SortedDeduped ==
    [][PagedReturns =>
          /\ StrictlyAscending(Returned)
          /\ TsOf(Returned) = TsOf(Accumulated)
          /\ \A i \in 1..Len(Returned) :
                \E j \in 1..Len(Accumulated) : Returned[i] = Accumulated[j]
      ]_vars

\* C1: pages [[3,1],[2,1]] and then a page ending in [1,1] have been merged
\* into [[1,1],[2,1],[3,1]].
C1_Witness ==
    /\ period = 3
    /\ side = "short"
    /\ longs = <<Point(1, 1), Point(2, 1), Point(3, 1)>>

\* C2: a page that is a non-empty list shorter than the per-page limit ends
\* the pagination: no further request of the same call is issued, and when
\* the call returns its series holds every timestamp of that page.
C2_ShortPageStops ==
    [][(pc = "process" /\ InPaged /\ IsList(data)
            /\ Len(data.items) > 0 /\ Len(data.items) < PageLimit) =>
          /\ ~PagedContinues
          /\ PagedReturns => TsOf(data.items) \subseteq TsOf(Returned)
      ]_vars

\* C2: the second page of a three-page budget is short, and its cursor alone
\* would let the loop go on.
C2_Witness ==
    /\ pc = "process"
    /\ side = "long"
    /\ MaxPages = 3
    /\ page = 1
    /\ IsList(data)
    /\ Len(data.items) = 1
    /\ Indexable(data.items[1])
    /\ Ts(data.items[1]) - 1 > StartMs

\* C3: the price series stored for a coin is the close projection of the
\* candles when longs and shorts are both empty; otherwise it is the points
\* of the projection at or after the earlier of their first timestamps, in
\* order, or the whole projection when no point is.
C3_PriceTrimmed ==
    [][(pc = "process" /\ side = "candle" /\ pc' = "stored") =>
          price_data' = ExpectedPrice]_vars

\* C3: longs start at 3, shorts are empty and both candles are older: the
\* stored price series is the whole projection.
C3_Witness ==
    /\ pc = "stored"
    /\ longs = <<Point(3, 1)>>
    /\ shorts = <<>>
    /\ price_data = <<Point(1, 1), Point(2, 1)>>

\* C4, as claimed: for every list and every max_points, downsample returns
\* exactly max_points elements when the list is longer than max_points, and
\* the list itself otherwise.
C4_AnyMaxPoints ==
    ds_pc # "call" =>
        /\ ds_pc = "returned"
        /\ Len(ds_data) > ds_max => Len(ds_out) = ds_max
        /\ Len(ds_data) <= ds_max => ds_out = ds_data

\* C4, amended: for every list and every max_points >= 2, downsample returns
\* exactly max_points elements when the list is longer than max_points, and
\* the list itself otherwise.
C4_LengthFromTwo ==
    (ds_pc # "call" /\ ds_max >= 2) =>
        /\ ds_pc = "returned"
        /\ Len(ds_data) > ds_max => Len(ds_out) = ds_max
        /\ Len(ds_data) <= ds_max => ds_out = ds_data

\* C4: a list of five elements has been reduced to three.
C4_Witness ==
    /\ ds_pc = "returned"
    /\ Len(ds_data) = 5
    /\ ds_max = 3
    /\ Len(ds_out) = 3

\* C5: for a list longer than max_points >= 2, the first element returned is
\* the first of the list and the last returned is the last of the list.
C5_EndpointsKept ==
    (ds_pc # "call" /\ ds_max >= 2 /\ Len(ds_data) > ds_max) =>
        /\ ds_pc = "returned"
        /\ ds_out # <<>>
        /\ ds_out[1] = ds_data[1]
        /\ ds_out[Len(ds_out)] = ds_data[Len(ds_data)]

\* C5: a list whose ends differ from all its inner elements has been reduced.
C5_Witness ==
    /\ ds_pc = "returned"
    /\ ds_max >= 2
    /\ Len(ds_data) > ds_max
    /\ ds_data[1] # ds_data[2]
    /\ ds_data[Len(ds_data)] # ds_data[Len(ds_data) - 1]

\* C6: before the second and the third attempt fetch_json has slept the
\* backoff; it gives up only on the failure of its third attempt, without
\* sleeping, and returns the empty list; and a fetch_position_paged whose
\* first fetch gave up returns the empty series without another fetch.
C6_ExhaustedFetch ==
    /\ [](pc = "attempt" /\ attempt > 0 => slept = BACKOFF)
    /\ [][(pc = "attempt" /\ pc' = "fetched" /\ ~ok') =>
             /\ attempt + 1 = 3
             /\ slept' = 0
             /\ data' = JList(<<>>)
         ]_vars
    /\ [][(pc = "process" /\ InPaged /\ ~ok /\ nreq = 1) =>
             /\ PagedReturns
             /\ Returned = <<>>
         ]_vars

\* C6: the only fetch of a fetch_position_paged call has failed three times.
C6_Witness ==
    /\ pc = "fetched"
    /\ InPaged
    /\ ~ok
    /\ nreq = 1
    /\ slept = 0
    /\ data = JList(<<>>)

\* C7, as claimed: a response that is not a list never raises; to the stats
\* query it ends the pagination with nothing added, and to the candle query
\* it leaves the price series of the coin empty.
C7_NonListIsNoData ==
    [][(pc = "process" /\ data.kind \in NonListKinds
            /\ AllIndexable(all_data)) =>
          /\ pc' # "raised"
          /\ InPaged => PagedReturns /\ TsOf(Returned) = TsOf(all_data)
          /\ side = "candle" => pc' = "stored" /\ price_data' = <<>>
      ]_vars

\* C8, as claimed: a list response with a malformed entry never raises, and
\* its well-formed records are in the result: their timestamps in the
\* returned series, their close projection in the price series.
C8_MalformedSkipped ==
    [][(pc = "process" /\ IsList(data) /\ AllIndexable(all_data)
            /\ \E i \in 1..Len(data.items) :
                  IF InPaged THEN ~WellFormedPosition(data.items[i])
                  ELSE ~WellFormedCandle(data.items[i])) =>
          /\ pc' # "raised"
          /\ PagedReturns =>
                \A i \in 1..Len(data.items) :
                    WellFormedPosition(data.items[i]) =>
                        Ts(data.items[i]) \in TsOf(Returned)
          /\ side = "candle" => price_data' = ExpectedPrice
      ]_vars

\* C9: fetch_json is called only when the rate-limit delay was the last
\* sleep, except for the first call of the run, and the run ends after that
\* delay.
C9_DelayBetweenCalls ==
    /\ [](pc = "done" => slept = RATE_LIMIT_DELAY)
    /\ [][FetchJsonCalled =>
             \/ slept = RATE_LIMIT_DELAY
             \/ (pc = "start" /\ period = 1)
         ]_vars

\* C9: for the last coin of the last period, the fetch of the shorts gave up
\* and the delay has passed; the call for the candles comes next.
C9_Witness ==
    /\ period = Len(PERIODS)
    /\ coin = Len(COINS)
    /\ side = "short"
    /\ pc = "process"
    /\ ~ok
    /\ longs # <<>>
    /\ slept = RATE_LIMIT_DELAY

\* C10: a fetch_position_paged call makes at most max_pages requests, each
\* with start = start_ms; a further request is issued only when the cursor
\* left by the page is above start_ms, and its end is the timestamp of the
\* last entry of that page minus 1.
C10_CursorWalk ==
    /\ [](InPaged /\ pc \in {"attempt", "fetched", "process"} =>
             /\ nreq <= MaxPages
             /\ req.path = "stats"
             /\ req.start = StartMs)
    /\ [][PagedContinues =>
             /\ req'.end = <<Ts(data.items[Len(data.items)]) - 1>>
             /\ Ts(data.items[Len(data.items)]) - 1 > StartMs
             /\ nreq' = nreq + 1
         ]_vars

\* C10: the third request of a three-page budget is in flight, with its end
\* below the timestamp that ended the second page.
C10_Witness ==
    /\ pc = "attempt"
    /\ side = "long"
    /\ MaxPages = 3
    /\ nreq = 3
    /\ req.end = <<cursor>>
    /\ cursor < Now

====
